---- MODULE Spec2Model ----
(***************************************************************************)
(* Model of src/api/create-order.js: the Razorpay order-creation endpoint. *)
(*                                                                         *)
(* The file holds two definitions of the default-exported handler: the     *)
(* first at lines 4-184, the second at lines 186-343.  Both are modelled;  *)
(* `variant` says which one an invocation runs.  The second one calls      *)
(* helpers (setJson, parseBody, validateAmount, validateCurrency,          *)
(* generateSecureReceipt) whose code is not in the file.                   *)
(*                                                                         *)
(* One invocation is a sequential path with one suspension point, the      *)
(* awaited razorpay.orders.create call.  `pc` is the handler's position.   *)
(***************************************************************************)
EXTENDS Integers, Sequences, FiniteSets, TLC

VARIABLES
    variant,        \* 1: handler of lines 4-184, 2: handler of lines 186-343
    method,         \* req.method
    env,            \* process.env, as configured for the process
    pc,             \* position of the handler
    envRead,        \* TRUE once the credentials were read from process.env
    keyId,          \* const keyId
    keySecret,      \* const keySecret
    body,           \* req.body; the handler's destructured locals are its fields
    orderOptions,   \* orderOptions / orderData, the payload
    calls,          \* payloads handed to razorpay.orders.create, in order
    outcome,        \* how the awaited gateway call settled
    caught,         \* which catch block ran ("none" when none did)
    responses       \* responses sent on res, in order

vars == <<variant, method, env, pc, envRead, keyId, keySecret, body,
          orderOptions, calls, outcome, caught, responses>>

-----------------------------------------------------------------------------
(* JavaScript values *)

\* undefined (also standing for an unset or empty environment variable)
Undefined == "undefined"

\* Numbers and the other shapes an amount can take in a JSON body.
\* "frac" n is the number n + 1/2, "str" n the numeric string of n.
Num(n) == [t |-> "int", v |-> n]
Frac(n) == [t |-> "frac", v |-> n]
Str(n) == [t |-> "str", v |-> n]
UndefinedAmount == [t |-> "undefined", v |-> 0]
NullAmount == [t |-> "null", v |-> 0]

\* !!a
Truthy(a) ==
    CASE a.t = "undefined" -> FALSE
      [] a.t = "null" -> FALSE
      [] a.t = "int" -> a.v # 0
      [] OTHER -> TRUE

\* Number.isInteger(a)
IsInteger(a) == a.t = "int"

\* Math.round(a) of a number
MathRound(a) == IF a.t = "frac" THEN a.v + 1 ELSE a.v

\* parseInt(a): the integer part of a number, the value of a numeric string
ParseInt(a) == Num(a.v)

\* String.prototype.toUpperCase on the currency strings of the model
ToUpperCase(s) ==
    CASE s = "inr" -> "INR"
      [] s = "usd" -> "USD"
      [] OTHER -> s

\* { ...f, ...g }: g's entries override f's on the same key
Spread(f, g) ==
    [k \in (DOMAIN f) \cup (DOMAIN g) |-> IF k \in DOMAIN g THEN g[k] ELSE f[k]]

\* An object without own properties; spreading undefined adds nothing either,
\* so an absent notes / order_metadata is this value too.
EmptyObject == [k \in {} |-> Undefined]

-----------------------------------------------------------------------------
(* Program constants *)

MinAmount == 100
MaxAmount == 15000000

SupportedCurrencies == {"INR", "USD", "EUR"}

LiveKeyIds == {"rzp_live_k1"}
TestKeyIds == {"rzp_test_k1"}

\* keyId?.startsWith('rzp_live')
StartsWithLive(k) == k \in LiveKeyIds

\* the messages of the error bodies (the rupee signs of the amount message left out)
AmountRequiredMsg == "Amount is required"
InvalidAmountMsg == "Invalid amount. Must be between 1 and 1,50,000 (in paise: 100-15000000)"
UnsupportedCurrencyMsg == "Unsupported currency. Supported: INR, USD, EUR"
GenericOrderMsg == "Failed to create payment order"

-----------------------------------------------------------------------------
(* Bounds and input sets *)

\* number of distinct caller-supplied note values
MaxNoteVal == 2

ValNames == <<"v1", "v2", "v3", "v4">>
NoteValues == {ValNames[i] : i \in 1..MaxNoteVal}

\* all objects with keys among K and values among NoteValues
NoteMaps(K) == UNION {[S -> NoteValues] : S \in SUBSET K}

Methods == {"POST", "OPTIONS", "GET"}

Envs ==
    [VITE_RAZORPAY_KEY_ID : {Undefined} \cup LiveKeyIds,
     RAZORPAY_KEY_ID : {Undefined} \cup TestKeyIds,
     RAZORPAY_KEY_SECRET : {Undefined, "secret"},
     NODE_ENV : {"development", "production"}]

Amounts ==
    {UndefinedAmount, NullAmount, Num(0), Num(MinAmount - 1), Num(MinAmount),
     Num(MaxAmount), Num(MaxAmount + 1), Frac(500), Str(500)}

Currencies == {Undefined, "INR", "USD", "EUR", "inr", "GBP"}

NoCustomer == [present |-> FALSE, email |-> Undefined, phone |-> Undefined]
Customers ==
    {NoCustomer} \cup
    [present : {TRUE}, email : {Undefined, "a@x.in"}, phone : {Undefined, "98765"}]

Receipts == {Undefined, "r1"}

\* req.body absent: req.body || {} leaves every destructured field undefined
NoBody ==
    [present |-> FALSE, amount |-> UndefinedAmount, currency |-> Undefined,
     customer_details |-> NoCustomer, order_metadata |-> EmptyObject,
     receipt |-> Undefined, notes |-> EmptyObject]

\* the bodies of the handler runs
Bodies ==
    {NoBody} \cup
    [present : {TRUE}, amount : Amounts, currency : Currencies,
     customer_details : {c \in Customers : c.phone = Undefined},
     order_metadata : {EmptyObject, [k \in {"ref", "customer_email"} |-> "v2"]},
     receipt : Receipts,
     notes : {EmptyObject, [k \in {"source", "ref"} |-> "v1"]}]

\* the bodies the payload construction is checked on: valid amount and
\* currency, every notes / order_metadata object over the colliding keys
PayloadBodies ==
    [present : {TRUE}, amount : {Num(MinAmount)}, currency : {Undefined, "USD"},
     customer_details : Customers,
     order_metadata : NoteMaps({"ref", "customer_email"}),
     receipt : {Undefined},
     notes : NoteMaps({"source", "ref"})]

NoOrderOptions ==
    [amount |-> 0, currency |-> Undefined, receipt |-> Undefined,
     payment_capture |-> 0, notes |-> EmptyObject]

NoError == [statusCode |-> 0, description |-> Undefined, message |-> Undefined,
            code |-> Undefined]

\* what razorpay.orders.create can reject with: statusCode 0 stands for an
\* error without statusCode; description and code are error.error's fields
GatewayErrors ==
    [statusCode : {0, 400}, description : {Undefined, "Invalid currency"},
     message : {Undefined, "Bad request"}, code : {Undefined, "BAD_REQUEST_ERROR"}]

NoOrder ==
    [id |-> Undefined, entity |-> Undefined, amount |-> 0, amount_due |-> 0,
     currency |-> Undefined, receipt |-> Undefined, status |-> Undefined,
     attempts |-> 0, created_at |-> 0]

\* what razorpay.orders.create can resolve with for payload o
GatewayOrders(o) ==
    [id : {"order_1"}, entity : {"order"}, amount : {o.amount},
     amount_due : {o.amount}, currency : {o.currency}, receipt : {o.receipt},
     status : {"created"}, attempts : {0}, created_at : {169000000}]

Pending == [kind |-> "pending", order |-> NoOrder, error |-> NoError]
NotCalled == [kind |-> "none", order |-> NoOrder, error |-> NoError]

-----------------------------------------------------------------------------
(* The handler's decisions and the values it builds *)

Response(status, b) == [status |-> status, body |-> b]

\* res.status(200).end() of the preflight: no body
PreflightResponse == Response(200, EmptyObject)

\* a gate that lets GET through as well
IsPost_OrGet(m) == m \in {"POST", "GET"}

\* req.method !== 'POST' is what the method gate tests
IsPost(m) == m = "POST"

MethodNotAllowedResponse == Response(405, [error |-> "Method not allowed"])

\* process.env.VITE_RAZORPAY_KEY_ID || process.env.RAZORPAY_KEY_ID
ResolveKeyId(e) ==
    IF e.VITE_RAZORPAY_KEY_ID # Undefined
    THEN e.VITE_RAZORPAY_KEY_ID
    ELSE e.RAZORPAY_KEY_ID

\* && written for ||
CredentialsMissing_Both(id, secret) == id = Undefined /\ secret = Undefined

\* !keyId || !keySecret
CredentialsMissing(id, secret) == id = Undefined \/ secret = Undefined

\* the response without its code
MissingCredentialsResponse_NoCode ==
    Response(500, [error |-> "Payment gateway not configured. Please contact support."])

MissingCredentialsResponse ==
    Response(500, [error |-> "Payment gateway not configured. Please contact support.",
                   code |-> "MISSING_CREDENTIALS"])

\* the first handler's catch (initError)
InitFailedResponse ==
    Response(500, [error |-> "Payment gateway initialization failed",
                   code |-> "RAZORPAY_INIT_FAILED"])

\* const { currency = 'INR' } = ...: the default applies to undefined only
Currency(b) == IF b.currency = Undefined THEN "INR" ELSE b.currency

\* !amount
AmountMissing(a) == ~Truthy(a)

\* the upper bound forgotten
AmountInvalid_NoUpperBound(a) == ~IsInteger(a) \/ a.v < MinAmount

\* !Number.isInteger(amount) || amount < 100 || amount > 15000000
AmountInvalid(a) == ~IsInteger(a) \/ a.v < MinAmount \/ a.v > MaxAmount

\* the currency upper-cased before the comparison
CurrencyUnsupported_AnyCase(c) == ToUpperCase(c) \notin SupportedCurrencies

\* !supportedCurrencies.includes(currency)
CurrencyUnsupported(c) == c \notin SupportedCurrencies

\* the second handler's helpers, whose code is not in the file
validateAmount(a) == IsInteger(a) /\ a.v >= MinAmount /\ a.v <= MaxAmount
validateCurrency(c) == c \in SupportedCurrencies
generateSecureReceipt == "rcpt_generated"

\* The three validations in the order the handlers run them: the message of
\* the first one that fails, Undefined when all pass.
ValidationError(v, b) ==
    IF AmountMissing(b.amount) THEN AmountRequiredMsg
    ELSE IF (IF v = 1 THEN AmountInvalid(b.amount) ELSE ~validateAmount(b.amount))
         THEN InvalidAmountMsg
    ELSE IF (IF v = 1 THEN CurrencyUnsupported(Currency(b))
                      ELSE ~validateCurrency(Currency(b)))
         THEN UnsupportedCurrencyMsg
    ELSE Undefined

ValidationResponse(msg) == Response(400, [error |-> msg])

\* Math.round(amount) in the first handler, Math.round(parseInt(amount)) in
\* the second
OrderAmount(v, a) == IF v = 1 THEN MathRound(a) ELSE MathRound(ParseInt(a))

\* receipt || <generated>: timestamp and random suffix are one opaque token
OrderReceipt(v, b) ==
    IF b.receipt # Undefined THEN b.receipt
    ELSE IF v = 1 THEN "rcpt_generated" ELSE generateSecureReceipt

\* ...order_metadata spread before ...notes
BuildNotes_NotesLast(kid, b) ==
    LET fixed == [source |-> "3rd-client",
                  environment |-> IF StartsWithLive(kid) THEN "LIVE" ELSE "TEST",
                  created_at |-> "now"]
        merged == Spread(Spread(fixed, b.order_metadata), b.notes)
        c == b.customer_details
        withEmail == IF c.present /\ c.email # Undefined
                     THEN Spread(merged, [customer_email |-> c.email])
                     ELSE merged
    IN  IF c.present /\ c.phone # Undefined
        THEN Spread(withEmail, [customer_phone |-> c.phone])
        ELSE withEmail

\* the notes object literal, then the customer_details assignments
BuildNotes(kid, b) ==
    LET fixed == [source |-> "3rd-client",
                  environment |-> IF StartsWithLive(kid) THEN "LIVE" ELSE "TEST",
                  created_at |-> "now"]
        merged == Spread(Spread(fixed, b.notes), b.order_metadata)
        c == b.customer_details
        withEmail == IF c.present /\ c.email # Undefined
                     THEN Spread(merged, [customer_email |-> c.email])
                     ELSE merged
    IN  IF c.present /\ c.phone # Undefined
        THEN Spread(withEmail, [customer_phone |-> c.phone])
        ELSE withEmail

BuildOrderOptions(v, kid, b) ==
    [amount |-> OrderAmount(v, b.amount),
     currency |-> ToUpperCase(Currency(b)),
     receipt |-> OrderReceipt(v, b),
     payment_capture |-> 1,
     notes |-> BuildNotes(kid, b)]

\* the first handler's catch (razorpayError)
GatewayErrorResponseA(e) ==
    LET statusCode == IF e.statusCode # 0 THEN e.statusCode ELSE 500
        errorMessage == IF e.description # Undefined THEN e.description
                        ELSE IF e.message # Undefined THEN e.message
                        ELSE GenericOrderMsg
    IN  Response(statusCode,
                 [error |-> errorMessage,
                  code |-> IF e.code # Undefined THEN e.code
                           ELSE "RAZORPAY_ORDER_FAILED"])

\* the second handler's only catch: it takes the gateway's rejections, the
\* constructor's and parseBody's exceptions alike
CatchB(e) ==
    LET statusCode == IF e.statusCode # 0 THEN e.statusCode ELSE 500
        errorMessage == IF e.statusCode # 0
                        THEN (IF e.description # Undefined THEN e.description
                              ELSE GenericOrderMsg)
                        ELSE IF e.message # Undefined THEN e.message
                        ELSE GenericOrderMsg
    IN  Response(statusCode,
                 [error |-> errorMessage,
                  code |-> IF e.code # Undefined THEN e.code
                           ELSE "CREATE_ORDER_FAILED"])

\* the first handler's outer catch
UnexpectedErrorResponse(e, nodeEnv) ==
    Response(500, [error |-> "Internal server error",
                   code |-> "UNEXPECTED_ERROR",
                   message |-> IF nodeEnv = "development" THEN e.message
                               ELSE "An unexpected error occurred"])

\* the gateway's order passed through as it came
SuccessResponse_WholeOrder(order) == Response(200, order)

\* the normalized response of a created order
SuccessResponse(order) ==
    Response(200, [id |-> order.id, amount |-> order.amount,
                   currency |-> order.currency, receipt |-> order.receipt,
                   status |-> order.status, created_at |-> order.created_at])

\* an Error object thrown by something other than the gateway call
Exception(msg) == [statusCode |-> 0, description |-> Undefined, message |-> msg,
                   code |-> Undefined]

-----------------------------------------------------------------------------
(* The handler, step by step *)

Init ==
    /\ variant \in {1, 2}
    /\ method \in Methods
    /\ env \in Envs
    /\ pc = "gate"
    /\ envRead = FALSE
    /\ keyId = Undefined
    /\ keySecret = Undefined
    /\ body \in Bodies
    /\ orderOptions = NoOrderOptions
    /\ calls = <<>>
    /\ outcome = NotCalled
    /\ caught = "none"
    /\ responses = <<>>

\* return res.status(..)...: send r and leave the handler
Return(r) ==
    /\ responses' = Append(responses, r)
    /\ pc' = "done"

\* OPTIONS and the method gate
MethodGate ==
    /\ pc = "gate"
    /\ IF method = "OPTIONS" THEN Return(PreflightResponse)
       ELSE IF ~IsPost(method) THEN Return(MethodNotAllowedResponse)
       ELSE pc' = "creds" /\ UNCHANGED responses
    /\ UNCHANGED <<variant, method, env, envRead, keyId, keySecret, body,
                   orderOptions, calls, outcome, caught>>

\* credential resolution
ResolveCredentials ==
    /\ pc = "creds"
    /\ envRead' = TRUE
    /\ keyId' = ResolveKeyId(env)
    /\ keySecret' = env.RAZORPAY_KEY_SECRET
    /\ IF CredentialsMissing(keyId', keySecret')
       THEN Return(MissingCredentialsResponse)
       ELSE pc' = "init" /\ UNCHANGED responses
    /\ UNCHANGED <<variant, method, env, body, orderOptions, calls, outcome, caught>>

\* the constructor's exception caught by nothing: it leaves the handler
InitClient_Uncaught ==
    /\ pc = "init"
    /\ \/ pc' = "body"
       \/ pc' = "threw"
    /\ UNCHANGED <<variant, method, env, envRead, keyId, keySecret, body,
                   orderOptions, calls, outcome, caught, responses>>

\* new Razorpay({...}): it returns, or it throws
InitClient ==
    /\ pc = "init"
    /\ \/ /\ pc' = "body"
          /\ UNCHANGED <<responses, caught>>
       \/ /\ IF variant = 1
             THEN caught' = "init" /\ Return(InitFailedResponse)
             ELSE caught' = "outer" /\ Return(CatchB(Exception("init failed")))
    /\ UNCHANGED <<variant, method, env, envRead, keyId, keySecret, body,
                   orderOptions, calls, outcome>>

\* The body is destructured: req.body || {} in the first handler, the result of
\* await parseBody(req) in the second.  Or an exception is raised here:
\* parseBody rejects, or in the first handler a statement of the try block
\* outside its two inner try blocks throws.
ReadBody ==
    /\ pc = "body"
    /\ \/ /\ pc' = "validate"
          /\ UNCHANGED <<responses, caught>>
       \/ /\ caught' = "outer"
          /\ IF variant = 1
             THEN Return(UnexpectedErrorResponse(Exception("boom"), env.NODE_ENV))
             ELSE Return(CatchB(Exception("Invalid JSON")))
    /\ UNCHANGED <<variant, method, env, envRead, keyId, keySecret, body,
                   orderOptions, calls, outcome>>

\* amount required, amount range, currency
Validate ==
    /\ pc = "validate"
    /\ LET msg == ValidationError(variant, body)
       IN  IF msg # Undefined THEN Return(ValidationResponse(msg))
           ELSE pc' = "build" /\ UNCHANGED responses
    /\ UNCHANGED <<variant, method, env, envRead, keyId, keySecret, body,
                   orderOptions, calls, outcome, caught>>

\* the payload is built
PrepareOrder ==
    /\ pc = "build"
    /\ orderOptions' = BuildOrderOptions(variant, keyId, body)
    /\ pc' = "call"
    /\ UNCHANGED <<variant, method, env, envRead, keyId, keySecret, body,
                   calls, outcome, caught, responses>>

\* razorpay.orders.create(orderOptions) is called and awaited
CreateOrder ==
    /\ pc = "call"
    /\ calls' = Append(calls, orderOptions)
    /\ outcome' = Pending
    /\ pc' = "await"
    /\ UNCHANGED <<variant, method, env, envRead, keyId, keySecret, body,
                   orderOptions, caught, responses>>

\* the call resolves and the handler answers with the normalized order
OrderCreated ==
    /\ pc = "await"
    /\ \E o \in GatewayOrders(orderOptions) :
          /\ outcome' = [kind |-> "ok", order |-> o, error |-> NoError]
          /\ Return(SuccessResponse(o))
    /\ UNCHANGED <<variant, method, env, envRead, keyId, keySecret, body,
                   orderOptions, calls, caught>>

\* the call made again after a rejection
OrderFailed_Retry ==
    /\ pc = "await"
    /\ Len(calls) < 3
    /\ calls' = Append(calls, orderOptions)
    /\ UNCHANGED <<variant, method, env, pc, envRead, keyId, keySecret, body,
                   orderOptions, outcome, caught, responses>>

\* the call rejects and the catch block answers
OrderFailed ==
    /\ pc = "await"
    /\ \E e \in GatewayErrors :
          /\ outcome' = [kind |-> "error", order |-> NoOrder, error |-> e]
          /\ IF variant = 1
             THEN caught' = "gateway" /\ Return(GatewayErrorResponseA(e))
             ELSE caught' = "outer" /\ Return(CatchB(e))
    /\ UNCHANGED <<variant, method, env, envRead, keyId, keySecret, body,
                   orderOptions, calls>>

\* the values the handler's state takes
TypeOK ==
    /\ variant \in {1, 2}
    /\ method \in Methods
    /\ env \in Envs
    /\ pc \in {"gate", "creds", "init", "body", "validate", "build", "call",
               "await", "done"}
    /\ envRead \in BOOLEAN
    /\ keyId \in {Undefined} \cup LiveKeyIds \cup TestKeyIds
    /\ keySecret \in {Undefined, "secret"}
    /\ body \in Bodies \cup PayloadBodies
    /\ Len(calls) <= 1
    /\ outcome.kind \in {"none", "pending", "ok", "error"}
    /\ caught \in {"none", "init", "gateway", "outer"}
    /\ Len(responses) <= 1

Next ==
    \/ MethodGate
    \/ ResolveCredentials
    \/ InitClient
    \/ ReadBody
    \/ Validate
    \/ PrepareOrder
    \/ CreateOrder
    \/ OrderCreated
    \/ OrderFailed

Spec == Init /\ [][Next]_vars

\* the awaited call settles and the handler's steps are taken
FairSpec == Spec /\ WF_vars(Next)

\* Payload construction on its own: the handler stands before the payload is
\* built, credentials resolved and the body validated, for every body of
\* PayloadBodies.
PayloadInit ==
    /\ variant \in {1, 2}
    /\ method = "POST"
    /\ env \in {e \in Envs : ~CredentialsMissing(ResolveKeyId(e), e.RAZORPAY_KEY_SECRET)}
    /\ pc = "build"
    /\ envRead = TRUE
    /\ keyId = ResolveKeyId(env)
    /\ keySecret = env.RAZORPAY_KEY_SECRET
    /\ body \in PayloadBodies
    /\ orderOptions = NoOrderOptions
    /\ calls = <<>>
    /\ outcome = NotCalled
    /\ caught = "none"
    /\ responses = <<>>

PayloadNext ==
    \/ PrepareOrder
    \/ CreateOrder

PayloadSpec == PayloadInit /\ [][PayloadNext]_vars

-----------------------------------------------------------------------------
(* Properties *)

Done == pc = "done"

\* the key identifier under either accepted name, and the key secret
KeyIdConfigured ==
    env.VITE_RAZORPAY_KEY_ID # Undefined \/ env.RAZORPAY_KEY_ID # Undefined
CredentialsConfigured == KeyIdConfigured /\ env.RAZORPAY_KEY_SECRET # Undefined

\* an integer amount within the accepted range
AmountAccepted(a) == a.t = "int" /\ a.v >= 100 /\ a.v <= 15000000

\* the supplied currency, INR when none is supplied
SuppliedCurrency == IF body.currency = Undefined THEN "INR" ELSE body.currency
CurrencyAccepted == SuppliedCurrency \in {"INR", "USD", "EUR"}

\* C1: the gateway order-creation call has been made only if the method is
\* POST, key identifier and key secret are both present, the supplied amount
\* is an integer in 100..15000000 and the currency (INR when absent) is one of
\* INR, USD, EUR; amount and currency of the payload sent satisfy the same.
C1_CallOnlyWhenValid ==
    calls # <<>> =>
        /\ method = "POST"
        /\ CredentialsConfigured
        /\ keyId # Undefined /\ keySecret # Undefined
        /\ AmountAccepted(body.amount)
        /\ CurrencyAccepted
        /\ \A i \in 1..Len(calls) :
              /\ calls[i].amount >= 100 /\ calls[i].amount <= 15000000
              /\ calls[i].currency \in {"INR", "USD", "EUR"}

C1_Witness ==
    /\ calls # <<>>
    /\ body.amount = Num(MaxAmount)
    /\ body.currency = Undefined
    /\ calls[1].currency = "INR"

\* C2: a POST request with the key identifier (under both names) or the key
\* secret absent is answered 500 with code MISSING_CREDENTIALS whatever the
\* body holds, and the gateway is never called.
C2_MissingCredentials ==
    (method = "POST" /\ ~CredentialsConfigured) =>
        /\ calls = <<>>
        /\ Done => /\ Len(responses) = 1
                   /\ responses[1].status = 500
                   /\ "code" \in DOMAIN responses[1].body
                   /\ responses[1].body.code = "MISSING_CREDENTIALS"

C2_Witness ==
    /\ Done
    /\ method = "POST"
    /\ KeyIdConfigured
    /\ env.RAZORPAY_KEY_SECRET = Undefined
    /\ body.amount = Num(MinAmount)
    /\ responses[1].status = 500

\* C3: a request whose method is neither POST nor OPTIONS is answered 405 with
\* body {error: "Method not allowed"}, whatever the credentials configuration
\* and the body; the credentials are not read and the gateway is not called.
C3_MethodNotAllowed ==
    method \notin {"POST", "OPTIONS"} =>
        /\ ~envRead
        /\ calls = <<>>
        /\ Done => responses = <<[status |-> 405,
                                  body |-> [error |-> "Method not allowed"]]>>

C3_Witness ==
    /\ Done
    /\ method = "GET"
    /\ CredentialsConfigured
    /\ AmountAccepted(body.amount)
    /\ Len(responses) = 1

\* C4: a POST request that passed credential resolution and client
\* construction, and whose body was read without an exception, is answered 400
\* without a gateway call when the amount is falsy, not an integer or out of
\* 100..15000000, or the currency (INR when absent) is not one of INR, USD,
\* EUR; a bad amount gets the amount error even when the currency is bad too.
C4_ValidationRejects ==
    (method = "POST" /\ CredentialsConfigured /\ caught = "none"
       /\ (~AmountAccepted(body.amount) \/ ~CurrencyAccepted)) =>
        /\ calls = <<>>
        /\ Done =>
              /\ Len(responses) = 1
              /\ responses[1].status = 400
              /\ responses[1].body.error =
                    IF body.amount.t \in {"undefined", "null"} \/ body.amount = Num(0)
                    THEN AmountRequiredMsg
                    ELSE IF ~AmountAccepted(body.amount) THEN InvalidAmountMsg
                    ELSE UnsupportedCurrencyMsg

C4_Witness ==
    /\ Done
    /\ method = "POST"
    /\ caught = "none"
    /\ body.amount = Num(MinAmount - 1)
    /\ body.currency = "GBP"
    /\ responses[1].body.error = InvalidAmountMsg

\* C5: the gateway call is issued at most once; while it has not settled no
\* response has been sent; at most one response is ever sent.
C5_OneCallAwaited ==
    /\ Len(calls) <= 1
    /\ Len(responses) <= 1
    /\ (calls # <<>> /\ outcome.kind \notin {"ok", "error"}) => responses = <<>>
    /\ (calls = <<>>) = (outcome.kind = "none")

C5_Witness ==
    /\ Done
    /\ Len(calls) = 1
    /\ outcome.kind = "error"
    /\ Len(responses) = 1

\* C6: every invocation ends having sent exactly one response, whatever the
\* method, body, credentials and gateway outcome, and no exception leaves the
\* handler (pc = "threw" is the handler left by an exception).
C6_AlwaysResponds ==
    /\ [](pc # "threw" /\ Len(responses) <= 1 /\ (Done => Len(responses) = 1))
    /\ <>Done

C6_Witness ==
    /\ Done
    /\ caught = "outer"
    /\ calls = <<>>
    /\ Len(responses) = 1
    /\ responses[1].status = 500

\* C7: when the gateway call fails, the status is the error's status code if
\* it has one and 500 otherwise; the message is the structured description if
\* present, else the raw message if present, else the generic message; the
\* code is the gateway's error code if present, else a fixed fallback code.
C7_GatewayFailureMapping ==
    (Done /\ outcome.kind = "error") =>
        LET e == outcome.error
            r == responses[1]
        IN  /\ r.status = IF e.statusCode # 0 THEN e.statusCode ELSE 500
            /\ r.body.error = IF e.description # Undefined THEN e.description
                              ELSE IF e.message # Undefined THEN e.message
                              ELSE GenericOrderMsg
            /\ "code" \in DOMAIN r.body
            /\ IF e.code # Undefined THEN r.body.code = e.code
               ELSE r.body.code \in {"RAZORPAY_ORDER_FAILED", "CREATE_ORDER_FAILED"}

\* C8, as stated: every response with a 4xx or 5xx status has a body with an
\* error string and a code string.
C8_EveryFailureHasCode ==
    \A i \in 1..Len(responses) :
        responses[i].status >= 400 =>
            {"error", "code"} \subseteq DOMAIN responses[i].body

\* C8, amended: every response with a 4xx or 5xx status has an error string;
\* it has a code string too unless it is the 405 method response or a 400
\* validation response (sent before any gateway call), which have none.
C8_FailureBodyShape ==
    \A i \in 1..Len(responses) :
        LET r == responses[i]
        IN  r.status >= 400 =>
              /\ "error" \in DOMAIN r.body
              /\ ("code" \in DOMAIN r.body) =
                    ~(r.status = 405 \/ (r.status = 400 /\ calls = <<>>))

C8_Witness ==
    /\ Done
    /\ Len(responses) = 1
    /\ responses[1].status = 400
    /\ calls = <<>>
    /\ DOMAIN responses[1].body = {"error"}

\* C9: when the gateway call succeeds the response is 200 and its body has
\* exactly the fields id, amount, currency, receipt, status, created_at, each
\* equal to the gateway result's field.
C9_NormalizedSuccess ==
    (Done /\ outcome.kind = "ok") =>
        /\ Len(responses) = 1
        /\ responses[1].status = 200
        /\ DOMAIN responses[1].body =
              {"id", "amount", "currency", "receipt", "status", "created_at"}
        /\ \A k \in {"id", "amount", "currency", "receipt", "status", "created_at"} :
              responses[1].body[k] = outcome.order[k]

C9_Witness ==
    /\ Done
    /\ outcome.kind = "ok"
    /\ outcome.order.entity = "order"
    /\ body.notes # EmptyObject
    /\ responses[1].body.id = "order_1"

\* C10: in the notes sent to the gateway the fixed keys are written first, then
\* the caller's notes, then order_metadata, then customer_email and
\* customer_phone when customer_details supplies them, a later write
\* overriding an earlier one: order_metadata wins over notes on a shared key,
\* and caller-supplied keys win over the fixed ones.
C10_NotesMergeOrder ==
    \A i \in 1..Len(calls) :
        LET n == calls[i].notes
            c == body.customer_details
            hasEmail == c.present /\ c.email # Undefined
            hasPhone == c.present /\ c.phone # Undefined
        IN  /\ DOMAIN n = {"source", "environment", "created_at"}
                          \cup DOMAIN body.notes \cup DOMAIN body.order_metadata
                          \cup (IF hasEmail THEN {"customer_email"} ELSE {})
                          \cup (IF hasPhone THEN {"customer_phone"} ELSE {})
            /\ \A k \in DOMAIN n :
                  n[k] = IF k = "customer_email" /\ hasEmail THEN c.email
                         ELSE IF k = "customer_phone" /\ hasPhone THEN c.phone
                         ELSE IF k \in DOMAIN body.order_metadata
                              THEN body.order_metadata[k]
                         ELSE IF k \in DOMAIN body.notes THEN body.notes[k]
                         ELSE IF k = "source" THEN "3rd-client"
                         ELSE IF k = "environment"
                              THEN (IF keyId \in LiveKeyIds THEN "LIVE" ELSE "TEST")
                         ELSE "now"

C10_Witness ==
    /\ calls # <<>>
    /\ "ref" \in DOMAIN body.notes
    /\ "ref" \in DOMAIN body.order_metadata
    /\ body.notes["ref"] # body.order_metadata["ref"]
    /\ "source" \in DOMAIN body.notes
    /\ calls[1].notes["ref"] = body.order_metadata["ref"]
    /\ calls[1].notes["source"] = body.notes["source"]

====
